---- MODULE Spec2Model ----
(***************************************************************************)
(* SlayerGame server: the players / achievements / player_achievements     *)
(* tables and the request handlers behind /api/me, /api/player/train,      *)
(* /api/player/save, /api/player/settings, /api/player/update-name and     *)
(* /api/player/check-achievements.                                         *)
(*                                                                         *)
(* The repository holds two versions of the server.  The better-sqlite3    *)
(* version runs every handler body synchronously (one event-loop turn);    *)
(* the pg version awaits every statement, so two handlers can interleave   *)
(* between statements.  Both are modelled over the same tables:            *)
(*   Spec     the synchronous handlers, one request at a time;             *)
(*   SpecPg   the awaiting handlers, two requests in flight;               *)
(*   SpecEval the achievement evaluation on drawn player rows.             *)
(***************************************************************************)
EXTENDS Integers, Sequences, FiniteSets, TLC

VARIABLES
    users,          \* users table: the account ids that exist
    players,        \* players table: account id -> row (PRIMARY KEY id)
    achievements,   \* achievements table, in insertion order
    unlocks,        \* player_achievements table: a set of rows
    reqs,           \* per connection slot: the request in flight / its response
    client          \* the browser's TrainingSection: its React state

vars == <<users, players, achievements, unlocks, reqs, client>>

(***************************************************************************)
(* Bounds of the model.                                                    *)
(***************************************************************************)
MaxAttr == 2        \* str, dex, vit are explored in 0..MaxAttr
MaxPoints == 5      \* stat_points are explored up to MaxPoints
MaxTime == 1        \* timestamps are drawn from 0..MaxTime
MaxSpend == 3       \* SpecPg: a train body spends 1..MaxSpend points

Ids == {1, 2}               \* account ids
Slots == {1, 2}             \* connection slots
Deltas == {-1, 0, 1}        \* str / dex / vit values of a train body
Spends == {-1, 0, 1, 2}     \* pointsSpent values of a train body

(***************************************************************************)
(* Rows and their defaults.                                                *)
(***************************************************************************)
NoRow == [id |-> 0]         \* what a SELECT of a missing row yields (undefined)

UserName(i) == IF i = 1 THEN <<"a", "l">> ELSE <<"b", "o">>

\* createPlayer: the INSERT INTO players with the fixed starting values.
\* (gender: string = 'Male'; t is the statement's CURRENT_TIMESTAMP)
\* Mutant: a new row without stat points.
createPlayer_NoPoints(userId, name, gender, t) ==
    [id |-> userId, name |-> name, gender |-> IF gender = "" THEN "Male" ELSE gender,
     level |-> 1, exp |-> 0, hp |-> 100, max_hp |-> 100,
     gold |-> 500, gems |-> 50, weapon |-> "Wooden Sword",
     str |-> 1, dex |-> 1, vit |-> 1, stat_points |-> 0,
     last_save |-> t, language |-> "EN", created_at |-> t,
     theme_color |-> "#ef4444"]

createPlayer(userId, name, gender, t) ==
    [id |-> userId, name |-> name, gender |-> IF gender = "" THEN "Male" ELSE gender,
     level |-> 1, exp |-> 0, hp |-> 100, max_hp |-> 100,
     gold |-> 500, gems |-> 50, weapon |-> "Wooden Sword",
     str |-> 1, dex |-> 1, vit |-> 1, stat_points |-> 5,
     last_save |-> t, language |-> "EN", created_at |-> t,
     theme_color |-> "#ef4444"]

\* SELECT * FROM players WHERE id = ?  (rows[0] / .get())
SelectPlayer(tbl, i) == IF i \in DOMAIN tbl THEN tbl[i] ELSE NoRow

\* initDb: the seeded catalog.
initialAchievements ==
    << [id |-> "lvl_5",     requirement_type |-> "level", requirement_value |-> 5],
       [id |-> "str_10",    requirement_type |-> "str",   requirement_value |-> 10],
       [id |-> "gold_1000", requirement_type |-> "gold",  requirement_value |-> 1000] >>

\* Mutant: a plain INSERT without the conflict clause.
InsertOrIgnore_Plain(tbl, seeds) == tbl \o seeds

RECURSIVE InsertOrIgnore(_, _)
\* INSERT ... ON CONFLICT (id) DO NOTHING / INSERT OR IGNORE, one row per seed.
InsertOrIgnore(tbl, seeds) ==
    IF seeds = <<>> THEN tbl
    ELSE LET ach == Head(seeds)
             has == \E k \in 1..Len(tbl) : tbl[k].id = ach.id
         IN  InsertOrIgnore(IF has THEN tbl ELSE Append(tbl, ach), Tail(seeds))

initDb(tbl) == InsertOrIgnore(tbl, initialAchievements)

(***************************************************************************)
(* Requests and responses.  A slot holds the request being handled         *)
(* (pc = "recv" and later program points) or the response sent for the     *)
(* last one (pc = "done").                                                 *)
(***************************************************************************)
EmptyBody == [empty |-> TRUE]

Slot(pc, caller, op, body) ==
    [pc |-> pc, caller |-> caller, op |-> op, body |-> body,
     again |-> FALSE,           \* history: a check-achievements request that
                                \* follows a successful one of the same caller
     status |-> 0, error |-> "", player |-> NoRow, newlyUnlocked |-> <<>>,
     row |-> NoRow,             \* handler local: const player = result.rows[0]
     newMaxHp |-> 0,            \* handler local: const newMaxHp
     unlockedIds |-> {},        \* handler local: const unlockedIds
     k |-> 0]                   \* handler local: position of the for loop

IdleSlot == Slot("idle", 0, "", EmptyBody)

\* The React state of the client's TrainingSection and the player record of
\* its useAuth context; pc is the await at which handleConfirm stands.
Client(pc, player, pendingStats, loading) ==
    [pc |-> pc, player |-> player, pendingStats |-> pendingStats, loading |-> loading]

NoPending == [str |-> 0, dex |-> 0, vit |-> 0]

\* No browser is open.
NoClient == Client("closed", NoRow, NoPending, FALSE)

\* res.status(code).json({ error }) and res.json({ success: true, ... })
Respond(r, status, error, player, newlyUnlocked) ==
    [Slot("done", r.caller, r.op, EmptyBody) EXCEPT
        !.again = r.again, !.status = status, !.error = error, !.player = player,
        !.newlyUnlocked = newlyUnlocked]

\* The train bodies drawn: one attribute per request, any pointsSpent.
TrainBodies ==
    {b \in [str : Deltas, dex : Deltas, vit : Deltas, pointsSpent : Spends] :
        Cardinality({a \in {"str", "dex", "vit"} : b[a] # 0}) <= 1}

(***************************************************************************)
(* POST /api/player/train: the pieces shared by both versions.             *)
(***************************************************************************)
\* Mutants of the rejection test: off by one, and without the points test.
TrainRejected_OffByOne(player, pointsSpent) ==
    IF player = NoRow THEN TRUE ELSE player.stat_points + 1 < pointsSpent

TrainRejected_NoPointsTest(player, pointsSpent) == player = NoRow

\* Mutant: the test only asks whether any point is left.
TrainRejected_AnyPointLeft(player, pointsSpent) ==
    IF player = NoRow THEN TRUE ELSE player.stat_points <= 0

\* if (!player || player.stat_points < pointsSpent)
TrainRejected(player, pointsSpent) ==
    IF player = NoRow THEN TRUE ELSE player.stat_points < pointsSpent

\* Mutant: max_hp from the vit read, without the request's vit.
newMaxHp_StaleVit(player, vit) == 100 + (player.vit * 10)

\* const newMaxHp = 100 + ((player.vit + vit) * 10)
newMaxHp(player, vit) == 100 + ((player.vit + vit) * 10)

\* Mutant: the UPDATE also sets hp to the new max_hp.
UpdateTrain_HealsHp(tbl, i, body, maxHp, t) ==
    IF i \in DOMAIN tbl
    THEN [tbl EXCEPT ![i].str = @ + body.str,
                     ![i].dex = @ + body.dex,
                     ![i].vit = @ + body.vit,
                     ![i].stat_points = @ - body.pointsSpent,
                     ![i].max_hp = maxHp,
                     ![i].hp = maxHp,
                     ![i].last_save = t]
    ELSE tbl

\* Mutant: the points are paid from gold.
UpdateTrain_PaysGold(tbl, i, body, maxHp, t) ==
    IF i \in DOMAIN tbl
    THEN [tbl EXCEPT ![i].str = @ + body.str,
                     ![i].dex = @ + body.dex,
                     ![i].vit = @ + body.vit,
                     ![i].gold = @ - body.pointsSpent,
                     ![i].max_hp = maxHp,
                     ![i].last_save = t]
    ELSE tbl

\* Mutant: the UPDATE with $1 and $2 bound the wrong way round.
UpdateTrain_Swapped(tbl, i, body, maxHp, t) ==
    IF i \in DOMAIN tbl
    THEN [tbl EXCEPT ![i].str = @ + body.dex,
                     ![i].dex = @ + body.str,
                     ![i].vit = @ + body.vit,
                     ![i].stat_points = @ - body.pointsSpent,
                     ![i].max_hp = maxHp,
                     ![i].last_save = t]
    ELSE tbl

\* UPDATE players SET str = str + $1, dex = dex + $2, vit = vit + $3,
\*   stat_points = stat_points - $4, max_hp = $5, last_save = CURRENT_TIMESTAMP
\* WHERE id = $6
UpdateTrain(tbl, i, body, maxHp, t) ==
    IF i \in DOMAIN tbl
    THEN [tbl EXCEPT ![i].str = @ + body.str,
                     ![i].dex = @ + body.dex,
                     ![i].vit = @ + body.vit,
                     ![i].stat_points = @ - body.pointsSpent,
                     ![i].max_hp = maxHp,
                     ![i].last_save = t]
    ELSE tbl

\* The model explores attribute values in 0..MaxAttr and stat_points up to
\* MaxPoints: an UPDATE that would leave this window is not explored.
InWindow(tbl, i, body) ==
    i \in DOMAIN tbl =>
        /\ tbl[i].str + body.str \in 0..MaxAttr
        /\ tbl[i].dex + body.dex \in 0..MaxAttr
        /\ tbl[i].vit + body.vit \in 0..MaxAttr
        /\ tbl[i].stat_points - body.pointsSpent <= MaxPoints

(***************************************************************************)
(* POST /api/player/check-achievements: the pieces shared by both versions.*)
(***************************************************************************)
\* SELECT achievement_id FROM player_achievements WHERE player_id = ?
SelectUnlockedIds(tbl, i) == {u.achievement_id : u \in {x \in tbl : x.player_id = i}}

\* Mutant: strict comparisons.
isMet_Strict(ach, player) ==
    \/ ach.requirement_type = "level" /\ player.level > ach.requirement_value
    \/ ach.requirement_type = "str"   /\ player.str   > ach.requirement_value
    \/ ach.requirement_type = "gold"  /\ player.gold  > ach.requirement_value

\* Mutant: a requirement_type outside the three counts as met.
isMet_Otherwise(ach, player) ==
    \/ ach.requirement_type = "level" /\ player.level >= ach.requirement_value
    \/ ach.requirement_type = "str"   /\ player.str   >= ach.requirement_value
    \/ ach.requirement_type = "gold"  /\ player.gold  >= ach.requirement_value
    \/ ach.requirement_type \notin {"level", "str", "gold"}

\* let isMet = false; the three requirement_type tests
isMet(ach, player) ==
    \/ ach.requirement_type = "level" /\ player.level >= ach.requirement_value
    \/ ach.requirement_type = "str"   /\ player.str   >= ach.requirement_value
    \/ ach.requirement_type = "gold"  /\ player.gold  >= ach.requirement_value

\* Mutant: without the unlockedIds.includes test.
ShouldUnlock_NoIncludes(ach, player, unlockedIds) == isMet(ach, player)

\* if (!unlockedIds.includes(ach.id)) { ... if (isMet) { INSERT; push } }
ShouldUnlock(ach, player, unlockedIds) ==
    ach.id \notin unlockedIds /\ isMet(ach, player)

\* Mutant: the row is written without the caller's id.
UnlockRow_NoPlayer(i, achId, t) == [player_id |-> 0, achievement_id |-> achId, unlocked_at |-> t]

\* INSERT INTO player_achievements (player_id, achievement_id): the row, and
\* whether PRIMARY KEY(player_id, achievement_id) lets it in.
UnlockRow(i, achId, t) == [player_id |-> i, achievement_id |-> achId, unlocked_at |-> t]

\* Mutant: the table without its primary key.
UnlockConflicts_Never(tbl, i, achId) == FALSE

UnlockConflicts(tbl, i, achId) ==
    \E u \in tbl : u.player_id = i /\ u.achievement_id = achId

\* player.level on an undefined player throws a TypeError
EvalThrows(ach, player, unlockedIds) ==
    /\ ach.id \notin unlockedIds
    /\ player = NoRow
    /\ ach.requirement_type \in {"level", "str", "gold"}

RECURSIVE CheckLoop(_, _, _, _, _, _, _)
\* achievements.forEach(...) of the synchronous version: the table and the
\* newlyUnlocked list after the loop, and whether the loop threw.
CheckLoop(achs, player, unlockedIds, i, tbl, newly, t) ==
    IF achs = <<>> THEN [tbl |-> tbl, newlyUnlocked |-> newly, threw |-> FALSE]
    ELSE LET ach == Head(achs) IN
         IF EvalThrows(ach, player, unlockedIds)
         THEN [tbl |-> tbl, newlyUnlocked |-> newly, threw |-> TRUE]
         ELSE IF ~ShouldUnlock(ach, player, unlockedIds)
         THEN CheckLoop(Tail(achs), player, unlockedIds, i, tbl, newly, t)
         ELSE IF UnlockConflicts(tbl, i, ach.id)
         THEN [tbl |-> tbl, newlyUnlocked |-> newly, threw |-> TRUE]
         ELSE CheckLoop(Tail(achs), player, unlockedIds, i,
                        tbl \cup {UnlockRow(i, ach.id, t)}, Append(newly, ach), t)

(***************************************************************************)
(* POST /api/player/update-name: name.trim()                               *)
(***************************************************************************)
RECURSIVE TrimStart(_)
TrimStart(name) ==
    IF name # <<>> /\ Head(name) = " " THEN TrimStart(Tail(name)) ELSE name

RECURSIVE TrimEnd(_)
TrimEnd(name) ==
    IF name # <<>> /\ name[Len(name)] = " "
    THEN TrimEnd(SubSeq(name, 1, Len(name) - 1)) ELSE name

\* Mutant: trimStart() in the place of trim().
trim_StartOnly(name) == TrimStart(name)

trim(name) == TrimEnd(TrimStart(name))

\* if (!name || name.trim().length < 2)
NameRejected(name) == IF name = <<>> THEN TRUE ELSE Len(trim(name)) < 2

(***************************************************************************)
(* The request bodies the model draws.                                     *)
(***************************************************************************)
Genders == {"", "Male"}                         \* "" : no gender in the body
\* "" : the field is not in the body
SettingsBodies == [language : {"", "TH"}, theme_color : {""}]
NameBodies == { [name |-> <<>>], [name |-> <<" ", "j", "o", " ">>] }

\* The account id the users table gives the next INSERT (SERIAL / AUTOINCREMENT).
NextUserId == IF users = {} THEN 1 ELSE 1 + CHOOSE m \in users : \A u \in users : u <= m

(***************************************************************************)
(* CURRENT_TIMESTAMP: the clock never runs backwards, so a statement's     *)
(* timestamp is not before any timestamp already stored.                   *)
(***************************************************************************)
Stamps ==
    {players[i].created_at : i \in DOMAIN players}
        \cup {players[i].last_save : i \in DOMAIN players}
        \cup {u.unlocked_at : u \in unlocks}

Clock == {t \in 0..MaxTime : \A x \in Stamps : x <= t}

(***************************************************************************)
(* A request arrives on a free slot.  The caller holds a token of an       *)
(* existing account (authenticateToken found it valid).                    *)
(***************************************************************************)
Arrive(s, r) ==
    /\ reqs[s].pc \in {"idle", "done"}
    /\ reqs' = [reqs EXCEPT ![s] = r]
    /\ UNCHANGED <<users, players, achievements, unlocks, client>>

ReceiveRegister(s, callers) ==
    /\ NextUserId \in callers
    /\ \E g \in Genders :
          Arrive(s, Slot("recv", NextUserId, "register",
                         [username |-> UserName(NextUserId), gender |-> g]))

ReceiveMe(s, callers) ==
    \E i \in callers \cap users : Arrive(s, Slot("recv", i, "me", EmptyBody))

ReceiveTrain(s, callers) ==
    \E i \in callers \cap users, b \in TrainBodies :
        /\ IF TrainRejected(SelectPlayer(players, i), b.pointsSpent) THEN TRUE
           ELSE InWindow(players, i, b)
        /\ Arrive(s, Slot("recv", i, "train", b))

ReceiveSave(s, callers) ==
    \E i \in callers \cap users : Arrive(s, Slot("recv", i, "save", EmptyBody))

ReceiveSettings(s, callers) ==
    \E i \in callers \cap users, b \in SettingsBodies :
        Arrive(s, Slot("recv", i, "settings", b))

ReceiveUpdateName(s, callers) ==
    \E i \in callers \cap users, b \in NameBodies :
        Arrive(s, Slot("recv", i, "update-name", b))

ReceiveCheck(s, callers) ==
    \E i \in callers \cap users :
        Arrive(s, [Slot("recv", i, "check-achievements", EmptyBody) EXCEPT
                     !.again = /\ reqs[s].pc = "done"
                               /\ reqs[s].op = "check-achievements"
                               /\ reqs[s].caller = i
                               /\ reqs[s].status = 200])

(***************************************************************************)
(* The synchronous (better-sqlite3) handlers: each runs from its first     *)
(* statement to its response in one step.                                  *)
(***************************************************************************)
Handling(s, op) == reqs[s].pc = "recv" /\ reqs[s].op = op

\* UPDATE players SET <column> = <value> WHERE id = ?
\* Mutant: the UPDATE without its WHERE id = ?.
UpdateColumn_NoWhere(tbl, i, column, value) ==
    [j \in DOMAIN tbl |-> [tbl[j] EXCEPT ![column] = value]]

\* Mutant: the value lands in created_at.
UpdateColumn_CreatedAt(tbl, i, column, value) ==
    IF i \in DOMAIN tbl THEN [tbl EXCEPT ![i]["created_at"] = value] ELSE tbl

UpdateColumn(tbl, i, column, value) ==
    IF i \in DOMAIN tbl THEN [tbl EXCEPT ![i][column] = value] ELSE tbl

LiteRegister(s, t) ==
    /\ Handling(s, "register")
    /\ LET r == reqs[s]
           userId == NextUserId
       IN  IF \E u \in users : UserName(u) = r.body.username
           THEN /\ reqs' = [reqs EXCEPT ![s] =
                               Respond(r, 400, "Username already exists", NoRow, <<>>)]
                /\ UNCHANGED <<users, players>>
           ELSE /\ users' = users \cup {userId}
                /\ IF userId \in DOMAIN players
                   THEN /\ players' = players
                        /\ reqs' = [reqs EXCEPT ![s] =
                                       Respond(r, 400, "Registration failed", NoRow, <<>>)]
                   ELSE /\ players' = players @@
                               (userId :> createPlayer(userId, r.body.username, r.body.gender, t))
                        /\ reqs' = [reqs EXCEPT ![s] = Respond(r, 200, "", NoRow, <<>>)]
    /\ UNCHANGED <<achievements, unlocks, client>>

LiteMe(s, t) ==
    /\ Handling(s, "me")
    /\ LET r == reqs[s]
           i == r.caller
       IN  /\ players' = IF i \in DOMAIN players THEN players
                         ELSE players @@ (i :> createPlayer(i, UserName(i), "", t))
           /\ reqs' = [reqs EXCEPT ![s] =
                 [Respond(r, 200, "", SelectPlayer(players', i), <<>>) EXCEPT
                     !.row = SelectPlayer(players, i)]]   \* let player = ... .get()
    /\ UNCHANGED <<users, achievements, unlocks, client>>

LiteTrain(s, t) ==
    /\ Handling(s, "train")
    /\ LET r == reqs[s]
           i == r.caller
           player == SelectPlayer(players, i)
       IN  IF TrainRejected(player, r.body.pointsSpent)
           THEN /\ reqs' = [reqs EXCEPT ![s] =
                               Respond(r, 400, "Insufficient stat points", NoRow, <<>>)]
                /\ UNCHANGED players
           ELSE /\ players' = UpdateTrain(players, i, r.body, newMaxHp(player, r.body.vit), t)
                /\ reqs' = [reqs EXCEPT ![s] =
                               Respond(r, 200, "", SelectPlayer(players', i), <<>>)]
    /\ UNCHANGED <<users, achievements, unlocks, client>>

LiteSave(s, t) ==
    /\ Handling(s, "save")
    /\ LET r == reqs[s]
           i == r.caller
       IN  /\ players' = UpdateColumn(players, i, "last_save", t)
           /\ reqs' = [reqs EXCEPT ![s] = Respond(r, 200, "", SelectPlayer(players', i), <<>>)]
    /\ UNCHANGED <<users, achievements, unlocks, client>>

LiteSettings(s) ==
    /\ Handling(s, "settings")
    /\ LET r == reqs[s]
           i == r.caller
           t1 == IF r.body.language # ""
                 THEN UpdateColumn(players, i, "language", r.body.language) ELSE players
           t2 == IF r.body.theme_color # ""
                 THEN UpdateColumn(t1, i, "theme_color", r.body.theme_color) ELSE t1
       IN  /\ players' = t2
           /\ reqs' = [reqs EXCEPT ![s] = Respond(r, 200, "", SelectPlayer(players', i), <<>>)]
    /\ UNCHANGED <<users, achievements, unlocks, client>>

LiteUpdateName(s) ==
    /\ Handling(s, "update-name")
    /\ LET r == reqs[s]
           i == r.caller
       IN  IF NameRejected(r.body.name)
           THEN /\ reqs' = [reqs EXCEPT ![s] =
                       Respond(r, 400, "Name must be at least 2 characters long", NoRow, <<>>)]
                /\ UNCHANGED players
           ELSE /\ players' = UpdateColumn(players, i, "name", trim(r.body.name))
                /\ reqs' = [reqs EXCEPT ![s] =
                               Respond(r, 200, "", SelectPlayer(players', i), <<>>)]
    /\ UNCHANGED <<users, achievements, unlocks, client>>

LiteCheckAchievements(s, t) ==
    /\ Handling(s, "check-achievements")
    /\ LET r == reqs[s]
           i == r.caller
           player == SelectPlayer(players, i)
           unlockedIds == SelectUnlockedIds(unlocks, i)
           out == CheckLoop(achievements, player, unlockedIds, i, unlocks, <<>>, t)
       IN  /\ unlocks' = out.tbl
           /\ reqs' = [reqs EXCEPT ![s] =
                 IF out.threw THEN Respond(r, 500, "Internal Server Error", NoRow, <<>>)
                 ELSE Respond(r, 200, "", NoRow, out.newlyUnlocked)]
    /\ UNCHANGED <<users, players, achievements, client>>

(***************************************************************************)
(* Spec: the synchronous server, requests of one account, one at a time.   *)
(***************************************************************************)
Callers == {1}

\* The tables after initDb.  An account may exist without a players row
\* (GET /api/me creates the row for such an account).
Init ==
    /\ users \in {{}, {1}}
    /\ players = <<>>
    /\ achievements = initDb(<<>>)
    /\ unlocks = {}
    /\ reqs = [s \in Slots |-> IdleSlot]
    /\ client = NoClient

\* The server process starts again: startServer calls initDb on the tables
\* as they are (CREATE TABLE IF NOT EXISTS, then the seeds); the requests
\* of the old process are gone.
Restart ==
    /\ achievements' = initDb(achievements)
    /\ reqs' = [s \in Slots |-> IdleSlot]
    /\ UNCHANGED <<users, players, unlocks, client>>

Next ==
    \/ ReceiveRegister(1, Callers)
    \/ ReceiveMe(1, Callers)
    \/ ReceiveTrain(1, Callers)
    \/ ReceiveSave(1, Callers)
    \/ ReceiveSettings(1, Callers)
    \/ ReceiveUpdateName(1, Callers)
    \/ ReceiveCheck(1, Callers)
    \/ \E t \in Clock : LiteRegister(1, t)
    \/ \E t \in Clock : LiteMe(1, t)
    \/ \E t \in Clock : LiteTrain(1, t)
    \/ \E t \in Clock : LiteSave(1, t)
    \/ LiteSettings(1)
    \/ LiteUpdateName(1)
    \/ \E t \in Clock : LiteCheckAchievements(1, t)
    \/ Restart

Spec == Init /\ [][Next]_vars

(***************************************************************************)
(* SpecEval: check-achievements on drawn rows.  The players row of account *)
(* 1 holds a level, str and gold around the catalog's thresholds, and any  *)
(* subset of the seeded catalog is already unlocked for it.  The           *)
(* achievements table is the seeded one, or the seeded one after a row of  *)
(* another requirement_type.                                               *)
(***************************************************************************)
Levels == {1, 4, 5, 6}
Strengths == {1, 9, 10, 11}
Golds == {500, 999, 1000, 1001}

CatalogIds == {initialAchievements[k].id : k \in 1..Len(initialAchievements)}

\* A row of the achievements table that initDb did not seed: its
\* requirement_type is none of the three the handler tests.
ExtraAchievements ==
    << [id |-> "dex_1", requirement_type |-> "dex", requirement_value |-> 1] >>

InitEval ==
    /\ users = {1}
    /\ \E l \in Levels, st \in Strengths, g \in Golds :
          players = (1 :> [createPlayer(1, UserName(1), "", 0) EXCEPT
                              !.level = l, !.str = st, !.gold = g])
    /\ achievements \in {initDb(<<>>), initDb(ExtraAchievements)}
    /\ \E ids \in SUBSET CatalogIds : unlocks = {UnlockRow(1, a, 0) : a \in ids}
    /\ reqs = [s \in Slots |-> IdleSlot]
    /\ client = NoClient

NextEval ==
    \/ ReceiveCheck(1, Callers)
    \/ \E t \in Clock : LiteCheckAchievements(1, t)
    \/ ReceiveSave(1, Callers)
    \/ \E t \in Clock : LiteSave(1, t)

SpecEval == InitEval /\ [][NextEval]_vars

(***************************************************************************)
(* SpecProfile: the settings and update-name handlers of the synchronous   *)
(* server over more bodies, for account 1 with the row createPlayer wrote. *)
(***************************************************************************)
\* "" : the field is not in the body; "red;" is not a colour value
ProfileSettingsBodies == [language : {"", "TH"}, theme_color : {"", "#3b82f6", "red;"}]

ProfileNames ==
    { <<>>, <<" ">>, <<"x">>, <<" ", "x", " ">>, <<" ", " ", " ">>,
      <<"j", "o">>, <<" ", "j", "o", " ">>, <<"a", " ", "b">>, <<" ", "a", " ", "b">> }

ProfileNameBodies == { [name |-> n] : n \in ProfileNames }

ReceiveProfileSettings(s, callers) ==
    \E i \in callers \cap users, b \in ProfileSettingsBodies :
        Arrive(s, Slot("recv", i, "settings", b))

ReceiveProfileName(s, callers) ==
    \E i \in callers \cap users, b \in ProfileNameBodies :
        Arrive(s, Slot("recv", i, "update-name", b))

InitProfile ==
    /\ users = {1}
    /\ players = (1 :> createPlayer(1, UserName(1), "", 0))
    /\ achievements = initDb(<<>>)
    /\ unlocks = {}
    /\ reqs = [s \in Slots |-> IdleSlot]
    /\ client = NoClient

NextProfile ==
    \/ ReceiveProfileSettings(1, Callers)
    \/ LiteSettings(1)
    \/ ReceiveProfileName(1, Callers)
    \/ LiteUpdateName(1)

SpecProfile == InitProfile /\ [][NextProfile]_vars

(***************************************************************************)
(* The awaiting (pg) train handler: one step per awaited statement.        *)
(*   recv     -> SELECT, the test, newMaxHp      -> update | done (400)    *)
(*   update   -> UPDATE                          -> reselect               *)
(*   reselect -> SELECT, res.json                -> done (200)             *)
(* The response keeps the request's body and the handler's locals.         *)
(***************************************************************************)
PgRespond(r, status, error, player, newlyUnlocked) ==
    [r EXCEPT !.pc = "done", !.status = status, !.error = error,
              !.player = player, !.newlyUnlocked = newlyUnlocked]

\* The bodies the client sends: non-negative deltas that sum to pointsSpent.
PgTrainBodies ==
    {b \in [str : 0..MaxSpend, dex : 0..MaxSpend, vit : 0..MaxSpend,
            pointsSpent : 1..MaxSpend] : b.str + b.dex + b.vit = b.pointsSpent}

\* In SpecPg every connection carries one request.
PgReceiveTrain(s, callers) ==
    /\ reqs[s].pc = "idle"
    /\ \E i \in callers \cap users, b \in PgTrainBodies :
          Arrive(s, Slot("recv", i, "train", b))

PgTrainSelect(s) ==
    /\ Handling(s, "train")
    /\ LET r == reqs[s]
           player == SelectPlayer(players, r.caller)
       IN  reqs' = [reqs EXCEPT ![s] =
               IF TrainRejected(player, r.body.pointsSpent)
               THEN [PgRespond(r, 400, "Insufficient stat points", NoRow, <<>>)
                        EXCEPT !.row = player]
               ELSE [r EXCEPT !.pc = "update", !.row = player,
                              !.newMaxHp = newMaxHp(player, r.body.vit)]]
    /\ UNCHANGED <<users, players, achievements, unlocks, client>>

PgTrainUpdate(s, t) ==
    /\ reqs[s].pc = "update" /\ reqs[s].op = "train"
    /\ LET r == reqs[s] IN
          /\ players' = UpdateTrain(players, r.caller, r.body, r.newMaxHp, t)
          /\ reqs' = [reqs EXCEPT ![s].pc = "reselect"]
    /\ UNCHANGED <<users, achievements, unlocks, client>>

PgTrainReturn(s) ==
    /\ reqs[s].pc = "reselect" /\ reqs[s].op = "train"
    /\ LET r == reqs[s] IN
          reqs' = [reqs EXCEPT ![s] =
                      PgRespond(r, 200, "", SelectPlayer(players, r.caller), <<>>)]
    /\ UNCHANGED <<users, players, achievements, unlocks, client>>

(***************************************************************************)
(* SpecPg: the awaiting server with account 1 registered (its row as       *)
(* createPlayer wrote it) and two connections handled concurrently.        *)
(***************************************************************************)
InitPg ==
    /\ users = {1}
    /\ players = (1 :> createPlayer(1, UserName(1), "", 0))
    /\ achievements = initDb(<<>>)
    /\ unlocks = {}
    /\ reqs = [s \in Slots |-> IdleSlot]
    /\ client = NoClient

NextPg ==
    \/ \E s \in Slots : PgReceiveTrain(s, Callers)
    \/ \E s \in Slots : PgTrainSelect(s)
    \/ \E s \in Slots, t \in Clock : PgTrainUpdate(s, t)
    \/ \E s \in Slots : PgTrainReturn(s)

SpecPg == InitPg /\ [][NextPg]_vars

(***************************************************************************)
(* An awaiting handler whose awaited statement rejects.  The handler is an *)
(* async function passed to app.get / app.post with no try/catch: the      *)
(* request ends at pc "thrown", either without any response (the rejection *)
(* is not handled, status 0) or with the framework's 500.                  *)
(***************************************************************************)
RejectedOutcomes == {0, 500}

PgThrow(r, status) == [r EXCEPT !.pc = "thrown", !.status = status]

(***************************************************************************)
(* The awaiting (pg) GET /api/me handler.                                  *)
(*   recv     -> SELECT, if (!player)            -> create | done (200)    *)
(*   create   -> createPlayer: INSERT            -> reselect | thrown      *)
(*   reselect -> SELECT, res.json                -> done (200)             *)
(***************************************************************************)
PgReceiveMe(s, callers) ==
    /\ reqs[s].pc = "idle"
    /\ \E i \in callers \cap users : Arrive(s, Slot("recv", i, "me", EmptyBody))

PgMeSelect(s) ==
    /\ Handling(s, "me")
    /\ LET r == reqs[s]
           player == SelectPlayer(players, r.caller)
       IN  reqs' = [reqs EXCEPT ![s] =
               IF player = NoRow THEN [r EXCEPT !.pc = "create"]
               ELSE [PgRespond(r, 200, "", player, <<>>) EXCEPT !.row = player]]
    /\ UNCHANGED <<users, players, achievements, unlocks, client>>

\* players.id INTEGER PRIMARY KEY: an INSERT of an id that has a row fails.
PlayerConflicts(tbl, i) == i \in DOMAIN tbl

PgMeCreate(s, t) ==
    /\ reqs[s].pc = "create" /\ reqs[s].op = "me"
    /\ LET r == reqs[s]
           i == r.caller
       IN  IF PlayerConflicts(players, i)
           THEN /\ \E st \in RejectedOutcomes :
                      reqs' = [reqs EXCEPT ![s] = PgThrow(r, st)]
                /\ UNCHANGED players
           ELSE /\ players' = players @@ (i :> createPlayer(i, UserName(i), "", t))
                /\ reqs' = [reqs EXCEPT ![s].pc = "reselect"]
    /\ UNCHANGED <<users, achievements, unlocks, client>>

PgMeReturn(s) ==
    /\ reqs[s].pc = "reselect" /\ reqs[s].op = "me"
    /\ LET r == reqs[s] IN
          reqs' = [reqs EXCEPT ![s] =
                      PgRespond(r, 200, "", SelectPlayer(players, r.caller), <<>>)]
    /\ UNCHANGED <<users, players, achievements, unlocks, client>>

(***************************************************************************)
(* The awaiting (pg) check-achievements handler.                           *)
(*   recv         -> SELECT players              -> achievements           *)
(*   achievements -> SELECT achievements         -> unlocked               *)
(*   unlocked     -> SELECT player_achievements  -> loop                   *)
(*   loop         -> the for loop up to its next await: an INSERT          *)
(*                   (-> loop | thrown), a TypeError (-> thrown) or the    *)
(*                   end of the catalog and res.json (-> done 200)         *)
(* The achievements table is written by initDb only, so the handler reads  *)
(* its local copy off the table.                                           *)
(***************************************************************************)
PgReceiveCheck(s, callers) ==
    /\ reqs[s].pc = "idle"
    /\ \E i \in callers \cap users :
          Arrive(s, Slot("recv", i, "check-achievements", EmptyBody))

PgCheckSelectPlayer(s) ==
    /\ Handling(s, "check-achievements")
    /\ reqs' = [reqs EXCEPT ![s].pc = "achievements",
                            ![s].row = SelectPlayer(players, reqs[s].caller)]
    /\ UNCHANGED <<users, players, achievements, unlocks, client>>

PgCheckSelectAchievements(s) ==
    /\ reqs[s].pc = "achievements" /\ reqs[s].op = "check-achievements"
    /\ reqs' = [reqs EXCEPT ![s].pc = "unlocked"]
    /\ UNCHANGED <<users, players, achievements, unlocks, client>>

PgCheckSelectUnlocked(s) ==
    /\ reqs[s].pc = "unlocked" /\ reqs[s].op = "check-achievements"
    /\ reqs' = [reqs EXCEPT ![s].pc = "loop", ![s].k = 1,
                            ![s].unlockedIds = SelectUnlockedIds(unlocks, reqs[s].caller)]
    /\ UNCHANGED <<users, players, achievements, unlocks, client>>

RECURSIVE PgScan(_, _, _, _)
\* The for loop from position k to the entry at which it next awaits an
\* INSERT ("insert"), throws ("throw") or runs off the catalog ("end").
PgScan(achs, player, unlockedIds, k) ==
    IF k > Len(achs) THEN [k |-> k, at |-> "end"]
    ELSE IF EvalThrows(achs[k], player, unlockedIds) THEN [k |-> k, at |-> "throw"]
    ELSE IF ShouldUnlock(achs[k], player, unlockedIds) THEN [k |-> k, at |-> "insert"]
    ELSE PgScan(achs, player, unlockedIds, k + 1)

PgCheckAt(s, at) ==
    /\ reqs[s].pc = "loop" /\ reqs[s].op = "check-achievements"
    /\ PgScan(achievements, reqs[s].row, reqs[s].unlockedIds, reqs[s].k).at = at

\* Mutant: unshift(ach) in the place of push(ach).
PgCheckInsert_Unshift(s, t) ==
    /\ PgCheckAt(s, "insert")
    /\ LET r == reqs[s]
           i == r.caller
           k == PgScan(achievements, r.row, r.unlockedIds, r.k).k
           ach == achievements[k]
       IN  IF UnlockConflicts(unlocks, i, ach.id)
           THEN /\ \E st \in RejectedOutcomes :
                      reqs' = [reqs EXCEPT ![s] = PgThrow([r EXCEPT !.k = k], st)]
                /\ UNCHANGED unlocks
           ELSE /\ unlocks' = unlocks \cup {UnlockRow(i, ach.id, t)}
                /\ reqs' = [reqs EXCEPT ![s].k = k + 1,
                                        ![s].newlyUnlocked = <<ach>> \o r.newlyUnlocked]
    /\ UNCHANGED <<users, players, achievements, client>>

\* await pool.query("INSERT INTO player_achievements ..."); push(ach)
PgCheckInsert(s, t) ==
    /\ PgCheckAt(s, "insert")
    /\ LET r == reqs[s]
           i == r.caller
           k == PgScan(achievements, r.row, r.unlockedIds, r.k).k
           ach == achievements[k]
       IN  IF UnlockConflicts(unlocks, i, ach.id)
           THEN /\ \E st \in RejectedOutcomes :
                      reqs' = [reqs EXCEPT ![s] = PgThrow([r EXCEPT !.k = k], st)]
                /\ UNCHANGED unlocks
           ELSE /\ unlocks' = unlocks \cup {UnlockRow(i, ach.id, t)}
                /\ reqs' = [reqs EXCEPT ![s].k = k + 1,
                                        ![s].newlyUnlocked = Append(r.newlyUnlocked, ach)]
    /\ UNCHANGED <<users, players, achievements, client>>

\* player.level of an undefined player
PgCheckTypeError(s) ==
    /\ PgCheckAt(s, "throw")
    /\ \E st \in RejectedOutcomes :
          reqs' = [reqs EXCEPT ![s] = PgThrow(reqs[s], st)]
    /\ UNCHANGED <<users, players, achievements, unlocks, client>>

PgCheckReturn(s) ==
    /\ PgCheckAt(s, "end")
    /\ LET r == reqs[s] IN
          reqs' = [reqs EXCEPT ![s] =
                      PgRespond([r EXCEPT !.k = Len(achievements) + 1],
                                200, "", NoRow, r.newlyUnlocked)]
    /\ UNCHANGED <<users, players, achievements, unlocks, client>>

(***************************************************************************)
(* SpecPgRace: the awaiting server, two connections, each carrying one     *)
(* GET /api/me or one check-achievements request of account 1.  The        *)
(* account has no players row yet, or a row whose level and str are drawn. *)
(***************************************************************************)
RaceLevels == {1, 5}
RaceStrengths == {1, 10}

InitPgRace ==
    /\ users = {1}
    /\ \/ players = <<>>
       \/ \E l \in RaceLevels, st \in RaceStrengths :
             players = (1 :> [createPlayer(1, UserName(1), "", 0) EXCEPT
                                 !.level = l, !.str = st])
    /\ achievements = initDb(<<>>)
    /\ unlocks = {}
    /\ reqs = [s \in Slots |-> IdleSlot]
    /\ client = NoClient

NextPgRace ==
    \/ \E s \in Slots : PgReceiveMe(s, Callers)
    \/ \E s \in Slots : PgMeSelect(s)
    \/ \E s \in Slots, t \in Clock : PgMeCreate(s, t)
    \/ \E s \in Slots : PgMeReturn(s)
    \/ \E s \in Slots : PgReceiveCheck(s, Callers)
    \/ \E s \in Slots : PgCheckSelectPlayer(s)
    \/ \E s \in Slots : PgCheckSelectAchievements(s)
    \/ \E s \in Slots : PgCheckSelectUnlocked(s)
    \/ \E s \in Slots, t \in Clock : PgCheckInsert(s, t)
    \/ \E s \in Slots : PgCheckTypeError(s)
    \/ \E s \in Slots : PgCheckReturn(s)

SpecPgRace == InitPgRace /\ [][NextPgRace]_vars

(***************************************************************************)
(* SpecLiteRace: the synchronous server with two connections.  Train       *)
(* requests of account 1 are submitted on both at any time; each handler   *)
(* runs from its SELECT to its response in one step, in either order.      *)
(***************************************************************************)
ReceiveRaceTrain(s, callers) ==
    \E i \in callers \cap users, b \in PgTrainBodies :
        Arrive(s, Slot("recv", i, "train", b))

InitLiteRace ==
    /\ users = {1}
    /\ players = (1 :> createPlayer(1, UserName(1), "", 0))
    /\ achievements = initDb(<<>>)
    /\ unlocks = {}
    /\ reqs = [s \in Slots |-> IdleSlot]
    /\ client = NoClient

NextLiteRace ==
    \/ \E s \in Slots : ReceiveRaceTrain(s, Callers)
    \/ \E s \in Slots, t \in Clock : LiteTrain(s, t)

SpecLiteRace == InitLiteRace /\ [][NextLiteRace]_vars

(***************************************************************************)
(* SpecVit: the synchronous train handler over bodies whose vit is any     *)
(* small integer, negative ones included, for account 1 with the row       *)
(* createPlayer wrote.                                                     *)
(***************************************************************************)
VitDeltas == {-2, -1, 0, 1}
VitWindow == {-2, -1, 0, 1, 2}          \* the vit values explored

VitTrainBodies == [str : {0}, dex : {0}, vit : VitDeltas, pointsSpent : {0, 1}]

ReceiveVitTrain(s, callers) ==
    \E i \in callers \cap users, b \in VitTrainBodies :
        /\ i \in DOMAIN players => players[i].vit + b.vit \in VitWindow
        /\ Arrive(s, Slot("recv", i, "train", b))

InitVit ==
    /\ users = {1}
    /\ players = (1 :> createPlayer(1, UserName(1), "", 0))
    /\ achievements = initDb(<<>>)
    /\ unlocks = {}
    /\ reqs = [s \in Slots |-> IdleSlot]
    /\ client = NoClient

NextVit ==
    \/ ReceiveVitTrain(1, Callers)
    \/ \E t \in Clock : LiteTrain(1, t)

SpecVit == InitVit /\ [][NextVit]_vars

(***************************************************************************)
(* SpecIso: the synchronous server with two accounts, each with a players  *)
(* row of level 5, and requests of either account or of no account: no     *)
(* token cookie ("") or one that jwt.verify refuses ("bad").               *)
(***************************************************************************)
IsoCallers == {1, 2}
BadTokens == {"", "bad"}
PlayerOps == {"train", "save", "settings", "update-name", "check-achievements"}

IsoTrainBodies == { [str |-> 3, dex |-> 0, vit |-> 0, pointsSpent |-> 3] }

ReceiveIsoTrain(s, callers) ==
    \E i \in callers \cap users, b \in IsoTrainBodies :
        Arrive(s, Slot("recv", i, "train", b))

\* A request whose cookie authenticateToken will not accept: req.user is
\* never set.
ReceiveBadToken(s) ==
    \E op \in PlayerOps, tk \in BadTokens :
        Arrive(s, Slot("auth", 0, op, [token |-> tk]))

\* authenticateToken: 401 without a token, 403 when jwt.verify fails; next()
\* is not called.
RejectToken(s) ==
    /\ reqs[s].pc = "auth"
    /\ LET r == reqs[s] IN
          reqs' = [reqs EXCEPT ![s] =
              IF r.body.token = "" THEN Respond(r, 401, "Unauthorized", NoRow, <<>>)
              ELSE Respond(r, 403, "Forbidden", NoRow, <<>>)]
    /\ UNCHANGED <<users, players, achievements, unlocks, client>>

InitIso ==
    /\ users = IsoCallers
    /\ players = [i \in IsoCallers |->
                     [createPlayer(i, UserName(i), "", 0) EXCEPT !.level = 5]]
    /\ achievements = initDb(<<>>)
    /\ unlocks = {}
    /\ reqs = [s \in Slots |-> IdleSlot]
    /\ client = NoClient

NextIso ==
    \/ ReceiveIsoTrain(1, IsoCallers)
    \/ ReceiveSave(1, IsoCallers)
    \/ ReceiveSettings(1, IsoCallers)
    \/ ReceiveUpdateName(1, IsoCallers)
    \/ ReceiveCheck(1, IsoCallers)
    \/ ReceiveBadToken(1)
    \/ RejectToken(1)
    \/ \E t \in Clock : LiteTrain(1, t)
    \/ \E t \in Clock : LiteSave(1, t)
    \/ LiteSettings(1)
    \/ LiteUpdateName(1)
    \/ \E t \in Clock : LiteCheckAchievements(1, t)

SpecIso == InitIso /\ [][NextIso]_vars

(***************************************************************************)
(* The client's TrainingSection (App.tsx).  One click is handled per       *)
(* render, so every handler sees the state of the last render.  The        *)
(* component talks to the server over connection 1; handleConfirm stands   *)
(* at one of its awaits while a request is in flight:                      *)
(*   render -> axios.post train -> "train" -> refreshData -> "me"          *)
(*          -> checkAchievements -> "check" -> setPendingStats -> render   *)
(***************************************************************************)
StatNames == {"str", "dex", "vit"}
ClickAmounts == {1, -1}

totalSpent == client.pendingStats.str + client.pendingStats.dex + client.pendingStats.vit
remaining == client.player.stat_points - totalSpent

\* if (!player) return null: the buttons exist only with a player record
Rendered == client.pc # "closed" /\ client.player # NoRow

\* onAdd / onSub of a StatRow; the minus button is disabled at pending 0,
\* the plus button at remaining 0.
handleAdjust(stat, amount) ==
    /\ Rendered
    /\ amount < 0 => client.pendingStats[stat] # 0
    /\ amount > 0 => remaining # 0
    /\ client' = IF \/ amount > 0 /\ remaining <= 0
                    \/ amount < 0 /\ client.pendingStats[stat] <= 0
                 THEN client
                 ELSE [client EXCEPT !.pendingStats[stat] = @ + amount]
    /\ UNCHANGED <<users, players, achievements, unlocks, reqs>>

\* the cancel button: setPendingStats({ str: 0, dex: 0, vit: 0 })
CancelClick ==
    /\ Rendered
    /\ client' = [client EXCEPT !.pendingStats = NoPending]
    /\ UNCHANGED <<users, players, achievements, unlocks, reqs>>

\* the confirm button (disabled at totalSpent 0 and while loading):
\* setLoading(true); axios.post('/api/player/train', ...)
handleConfirm ==
    /\ Rendered
    /\ ~(totalSpent = 0 \/ client.loading)
    /\ IF totalSpent = 0 THEN UNCHANGED <<client, reqs>>
       ELSE /\ client' = [client EXCEPT !.loading = TRUE, !.pc = "train"]
            /\ reqs' = [reqs EXCEPT ![1] =
                  Slot("recv", client.player.id, "train",
                       [str |-> client.pendingStats.str,
                        dex |-> client.pendingStats.dex,
                        vit |-> client.pendingStats.vit,
                        pointsSpent |-> totalSpent])]
    /\ UNCHANGED <<users, players, achievements, unlocks>>

\* await axios.post resolves (then refreshData starts its GET /api/me) or
\* rejects on a 400 (catch, finally setLoading(false)).
TrainResolved ==
    /\ client.pc = "train" /\ reqs[1].pc = "done"
    /\ IF reqs[1].status = 200
       THEN /\ client' = [client EXCEPT !.pc = "me"]
            /\ reqs' = [reqs EXCEPT ![1] = Slot("recv", reqs[1].caller, "me", EmptyBody)]
       ELSE /\ client' = [client EXCEPT !.pc = "render", !.loading = FALSE]
            /\ UNCHANGED reqs
    /\ UNCHANGED <<users, players, achievements, unlocks>>

\* refreshData: setPlayer(res.data.player); then checkAchievements posts.
refreshDataResolved ==
    /\ client.pc = "me" /\ reqs[1].pc = "done"
    /\ client' = [client EXCEPT !.pc = "check", !.player = reqs[1].player]
    /\ reqs' = [reqs EXCEPT ![1] =
          Slot("recv", reqs[1].caller, "check-achievements", EmptyBody)]
    /\ UNCHANGED <<users, players, achievements, unlocks>>

\* checkAchievements returns (it catches its own errors):
\* setPendingStats({ str: 0, dex: 0, vit: 0 }); finally setLoading(false)
checkAchievementsResolved ==
    /\ client.pc = "check" /\ reqs[1].pc = "done"
    /\ client' = [client EXCEPT !.pc = "render", !.loading = FALSE,
                                !.pendingStats = NoPending]
    /\ UNCHANGED <<users, players, achievements, unlocks, reqs>>

(***************************************************************************)
(* SpecClient: the TrainingSection of account 1 in front of the            *)
(* synchronous server; the account also trains from a second session on    *)
(* connection 2.                                                           *)
(***************************************************************************)
InitClient ==
    /\ users = {1}
    /\ players = (1 :> createPlayer(1, UserName(1), "", 0))
    /\ achievements = initDb(<<>>)
    /\ unlocks = {}
    /\ reqs = [s \in Slots |-> IdleSlot]
    /\ client = Client("render", players[1], NoPending, FALSE)

NextClient ==
    \/ \E stat \in StatNames, amount \in ClickAmounts : handleAdjust(stat, amount)
    \/ CancelClick
    \/ handleConfirm
    \/ TrainResolved
    \/ refreshDataResolved
    \/ checkAchievementsResolved
    \/ ReceiveIsoTrain(2, Callers)
    \/ \E s \in Slots, t \in Clock : LiteTrain(s, t)
    \/ \E t \in Clock : LiteMe(1, t)
    \/ \E t \in Clock : LiteCheckAchievements(1, t)

SpecClient == InitClient /\ [][NextClient]_vars

(***************************************************************************)
(* Properties.                                                             *)
(***************************************************************************)
\* The step in which the handler of slot s takes a request of kind op from
\* its arrival to its response.
Answered(s, op) == reqs[s].pc = "recv" /\ reqs[s].op = op /\ reqs'[s].pc = "done"

\* The response held by slot s answers a request of kind op with status.
Replied(s, op, status) ==
    reqs[s].pc = "done" /\ reqs[s].op = op /\ reqs[s].status = status

\* C1: a train request whose pointsSpent exceeds the caller's stored
\* stat_points is answered 400 "Insufficient stat points" and the players
\* table (str, dex, vit, stat_points, max_hp, last_save included) is the
\* same after the request as before it.
C1_InsufficientPointsRejected ==
    [][\A s \in Slots :
          ( /\ Answered(s, "train")
            /\ reqs[s].caller \in DOMAIN players
            /\ reqs[s].body.pointsSpent > players[reqs[s].caller].stat_points )
          => ( /\ reqs'[s].status = 400
               /\ reqs'[s].error = "Insufficient stat points"
               /\ players' = players )]_vars

\* C1 witness: a train request of an account that has a row was rejected.
C1_Witness ==
    \E s \in Slots : Replied(s, "train", 400) /\ reqs[s].caller \in DOMAIN players

\* C2 (as claimed): of two train requests of one account that both read the
\* same stat_points value v, each spending at most v and together more than
\* v, at most one is answered with success.
C2_AtMostOneSucceeds ==
    \A s1, s2 \in Slots :
        ( /\ s1 # s2
          /\ reqs[s1].pc = "done" /\ reqs[s1].op = "train"
          /\ reqs[s2].pc = "done" /\ reqs[s2].op = "train"
          /\ reqs[s1].caller = reqs[s2].caller
          /\ reqs[s1].row # NoRow /\ reqs[s2].row # NoRow
          /\ reqs[s1].row.stat_points = reqs[s2].row.stat_points
          /\ reqs[s1].body.pointsSpent <= reqs[s1].row.stat_points
          /\ reqs[s2].body.pointsSpent <= reqs[s1].row.stat_points
          /\ reqs[s1].body.pointsSpent + reqs[s2].body.pointsSpent
                > reqs[s1].row.stat_points )
        => ~(reqs[s1].status = 200 /\ reqs[s2].status = 200)

\* C3: with requests handled one at a time, stat_points >= 0 in every row
\* of the players table.
C3_StatPointsNonNegative ==
    \A i \in DOMAIN players : players[i].stat_points >= 0

\* C3 witness: a successful train request spent the last stat point.
C3_Witness ==
    \E s \in Slots : Replied(s, "train", 200) /\ players[reqs[s].caller].stat_points = 0

\* C4: after a successful train request handled without interleaving, the
\* row returned and the row stored both have max_hp = 100 + vit * 10.
C4_MaxHpAfterTrain ==
    \A s \in Slots :
        Replied(s, "train", 200) =>
            /\ reqs[s].player # NoRow
            /\ reqs[s].player.max_hp = 100 + reqs[s].player.vit * 10
            /\ reqs[s].caller \in DOMAIN players
            /\ players[reqs[s].caller].max_hp = 100 + players[reqs[s].caller].vit * 10

\* C4 witness: a successful train request raised vit to 2 (max_hp 120).
C4_Witness ==
    \E s \in Slots : Replied(s, "train", 200) /\ reqs[s].player.vit = 2

\* C5 (as claimed): once a train request has run its UPDATE, the stored row
\* has max_hp = 100 + vit * 10, also when two train requests interleave.
C5_MaxHpAfterMutation ==
    \A s \in Slots :
        ( /\ reqs[s].op = "train"
          /\ reqs[s].pc = "reselect" \/ (reqs[s].pc = "done" /\ reqs[s].status = 200) )
        => players[reqs[s].caller].max_hp = 100 + players[reqs[s].caller].vit * 10

\* C6: a successful train request adds the body's str, dex and vit to the
\* stored str, dex and vit, takes the body's pointsSpent from stat_points,
\* and returns the row as stored after the UPDATE.
C6_TrainEffect ==
    [][\A s \in Slots :
          (Answered(s, "train") /\ reqs'[s].status = 200) =>
              LET i == reqs[s].caller
                  body == reqs[s].body
              IN  /\ i \in DOMAIN players /\ i \in DOMAIN players'
                  /\ players'[i].str = players[i].str + body.str
                  /\ players'[i].dex = players[i].dex + body.dex
                  /\ players'[i].vit = players[i].vit + body.vit
                  /\ players'[i].stat_points = players[i].stat_points - body.pointsSpent
                  /\ reqs'[s].player = players'[i]]_vars

\* C6 witness: a successful train request returned str 2 and 4 stat points.
C6_Witness ==
    \E s \in Slots :
        /\ Replied(s, "train", 200)
        /\ reqs[s].player.str = 2 /\ reqs[s].player.stat_points = 4

\* C7 (as claimed): str + dex + vit + stat_points of a row is what
\* createPlayer gave it (1 + 1 + 1 + 5) in every reachable state.
C7_PointsConserved ==
    \A i \in DOMAIN players :
        players[i].str + players[i].dex + players[i].vit + players[i].stat_points
            = 1 + 1 + 1 + 5

\* C8 (as claimed): no request lowers str, dex or vit of a row.
C8_AttributesNeverDecrease ==
    [][\A i \in DOMAIN players :
          /\ i \in DOMAIN players'
          /\ players'[i].str >= players[i].str
          /\ players'[i].dex >= players[i].dex
          /\ players'[i].vit >= players[i].vit]_vars

\* The requirement of a catalog entry, read off the row: greater-or-equal
\* on level, str or gold.
RequirementMet(ach, p) ==
    \/ ach.requirement_type = "level" /\ p.level >= ach.requirement_value
    \/ ach.requirement_type = "str"   /\ p.str   >= ach.requirement_value
    \/ ach.requirement_type = "gold"  /\ p.gold  >= ach.requirement_value

UnlockedOf(tbl, i) == {u.achievement_id : u \in {x \in tbl : x.player_id = i}}

\* C9: check-achievements returns, and records as unlocked, exactly the
\* catalog entries not yet unlocked for the caller whose requirement is met
\* under >=; level 5 unlocks lvl_5 and level 4 does not, gold 1000 unlocks
\* gold_1000 and gold 999 does not.
C9_UnlocksExactlyMet ==
    [][\A s \in Slots :
          (Answered(s, "check-achievements") /\ reqs[s].caller \in DOMAIN players) =>
              LET i == reqs[s].caller
                  p == players[i]
                  before == UnlockedOf(unlocks, i)
                  expected == {achievements[k] : k \in
                                  {n \in 1..Len(achievements) :
                                      /\ achievements[n].id \notin before
                                      /\ RequirementMet(achievements[n], p)}}
                  newly == {reqs'[s].newlyUnlocked[k] : k \in 1..Len(reqs'[s].newlyUnlocked)}
                  newlyIds == {a.id : a \in newly}
              IN  /\ reqs'[s].status = 200
                  /\ newly = expected
                  /\ UnlockedOf(unlocks', i) = before \cup newlyIds
                  /\ (p.level = 5 /\ "lvl_5" \notin before) => "lvl_5" \in newlyIds
                  /\ p.level = 4 => "lvl_5" \notin newlyIds
                  /\ (p.gold = 1000 /\ "gold_1000" \notin before) => "gold_1000" \in newlyIds
                  /\ p.gold = 999 => "gold_1000" \notin newlyIds]_vars

\* C9 witness: a row with level 5, str 9 and gold 999 unlocked lvl_5 alone.
C9_Witness ==
    \E s \in Slots :
        /\ Replied(s, "check-achievements", 200)
        /\ players[reqs[s].caller].level = 5
        /\ players[reqs[s].caller].str = 9
        /\ players[reqs[s].caller].gold = 999
        /\ Len(reqs[s].newlyUnlocked) = 1
        /\ reqs[s].newlyUnlocked[1].id = "lvl_5"

\* C10: a check-achievements request that directly follows a successful one
\* of the same caller returns an empty newlyUnlocked list and leaves the
\* player_achievements table as it was.
C10_SecondCheckUnlocksNothing ==
    [][\A s \in Slots :
          (Answered(s, "check-achievements") /\ reqs[s].again) =>
              /\ reqs'[s].status = 200
              /\ reqs'[s].newlyUnlocked = <<>>
              /\ unlocks' = unlocks]_vars

\* C10 witness: a repeated check-achievements returned an empty list after
\* an earlier one of this run had recorded an unlock.
C10_Witness ==
    \E s \in Slots :
        /\ Replied(s, "check-achievements", 200)
        /\ reqs[s].again
        /\ reqs[s].newlyUnlocked = <<>>
        /\ \E u \in unlocks : u.player_id = reqs[s].caller /\ u.unlocked_at > 0

\* The rows of player i in the player_achievements table.
UnlockRowsOf(tbl, i) == {u \in tbl : u.player_id = i}

\* C11: the newlyUnlocked list of a check-achievements response names
\* exactly the achievements whose player_achievements row this request
\* inserted (the caller's rows after the request minus those before it),
\* each once, and none that was unlocked before the request.
C11_NewlyUnlockedAreInserted ==
    [][\A s \in Slots :
          Answered(s, "check-achievements") =>
              LET i == reqs[s].caller
                  list == reqs'[s].newlyUnlocked
                  newlyIds == {list[k].id : k \in 1..Len(list)}
                  inserted == UnlockRowsOf(unlocks', i) \ UnlockRowsOf(unlocks, i)
              IN  /\ unlocks \subseteq unlocks'
                  /\ unlocks' \ unlocks \subseteq UnlockRowsOf(unlocks', i)
                  /\ {u.achievement_id : u \in inserted} = newlyIds
                  /\ Cardinality(newlyIds) = Len(list)
                  /\ Cardinality(inserted) = Len(list)
                  /\ newlyIds \cap UnlockedOf(unlocks, i) = {}]_vars

\* C11 witness: a response that lists str_10 alone for a row that also
\* meets lvl_5, which was unlocked before the request.
C11_Witness ==
    \E s \in Slots :
        /\ Replied(s, "check-achievements", 200)
        /\ Len(reqs[s].newlyUnlocked) = 1
        /\ reqs[s].newlyUnlocked[1].id = "str_10"
        /\ players[reqs[s].caller].level >= 5
        /\ players[reqs[s].caller].gold < 1000
        /\ UnlockedOf(unlocks, reqs[s].caller) = {"lvl_5", "str_10"}

\* C12: in every reachable state, concurrent check-achievements requests of
\* one player included, the player_achievements table holds at most one row
\* per (player_id, achievement_id).
C12_OneUnlockPerPair ==
    \A u, v \in unlocks :
        (u.player_id = v.player_id /\ u.achievement_id = v.achievement_id) => u = v

\* C12 witness: of two concurrent check-achievements requests of one
\* player, one inserted the row of an achievement and the INSERT of the
\* other for the same achievement was refused.
C12_Witness ==
    \E s, o \in Slots :
        /\ s # o
        /\ reqs[s].op = "check-achievements" /\ reqs[o].op = "check-achievements"
        /\ reqs[s].caller = reqs[o].caller
        /\ reqs[s].pc = "thrown" /\ reqs[s].row # NoRow
        /\ \E n \in 1..Len(reqs[o].newlyUnlocked) :
              reqs[o].newlyUnlocked[n].id = achievements[reqs[s].k].id
        /\ achievements[reqs[s].k].id \in UnlockedOf(unlocks, reqs[s].caller)

\* C13: a check-achievements request that fails on the store (an INSERT is
\* refused after an earlier INSERT of the same request went through) leaves
\* none of the rows it wrote in the player_achievements table.
C13_FailedCheckLeavesNoUnlock ==
    \A s \in Slots :
        (reqs[s].op = "check-achievements" /\ reqs[s].pc = "thrown") =>
            \A n \in 1..Len(reqs[s].newlyUnlocked) :
                reqs[s].newlyUnlocked[n].id \notin UnlockedOf(unlocks, reqs[s].caller)

\* The requirement types the handler tests.
KnownTypes == {"level", "str", "gold"}

\* C14: a catalog entry whose requirement_type is none of level, str and
\* gold is never unlocked, whatever the player's row holds, and a
\* check-achievements request over a catalog with such an entry is still
\* answered 200.
C14_UnknownTypeNeverUnlocked ==
    [][\A s \in Slots :
          (Answered(s, "check-achievements") /\ reqs[s].caller \in DOMAIN players) =>
              \A n \in 1..Len(achievements) :
                  achievements[n].requirement_type \notin KnownTypes =>
                      /\ reqs'[s].status = 200
                      /\ reqs'[s].error = ""
                      /\ achievements[n].id \notin UnlockedOf(unlocks', reqs[s].caller)
                      /\ \A m \in 1..Len(reqs'[s].newlyUnlocked) :
                            reqs'[s].newlyUnlocked[m] # achievements[n]]_vars

\* C14 witness: a 200 response over a catalog that holds dex_1 (requirement
\* "dex" >= 1) for a row with dex 1; the request unlocked lvl_5 and not
\* dex_1.
C14_Witness ==
    \E s \in Slots :
        /\ Replied(s, "check-achievements", 200)
        /\ \E n \in 1..Len(achievements) :
              /\ achievements[n].requirement_type = "dex"
              /\ players[reqs[s].caller].dex >= achievements[n].requirement_value
              /\ achievements[n].id \notin UnlockedOf(unlocks, reqs[s].caller)
        /\ \E m \in 1..Len(reqs[s].newlyUnlocked) : reqs[s].newlyUnlocked[m].id = "lvl_5"

\* C16: two interleaved GET /api/me requests of an account without a
\* players row leave at most one row, and both are answered with that row.
C16_ConcurrentFirstAccessReturnsRecord ==
    \A s \in Slots :
        (reqs[s].op = "me" /\ reqs[s].pc \in {"done", "thrown"}) =>
            /\ reqs[s].pc = "done"
            /\ reqs[s].status = 200
            /\ reqs[s].caller \in DOMAIN players
            /\ reqs[s].player = players[reqs[s].caller]

\* The fields createPlayer gives a new row.
IsDefaultRecord(p) ==
    /\ p.level = 1 /\ p.exp = 0 /\ p.hp = 100 /\ p.max_hp = 100
    /\ p.gold = 500 /\ p.gems = 50
    /\ p.str = 1 /\ p.dex = 1 /\ p.vit = 1 /\ p.stat_points = 5

\* C15: GET /api/me of an account without a players row adds exactly one
\* row, with level 1, exp 0, hp 100, max_hp 100, gold 500, gems 50, str,
\* dex and vit 1 and stat_points 5, and answers with that row; GET /api/me
\* of an account that has a row answers with the row and writes nothing.
C15_FirstFetchCreatesDefault ==
    [][\A s \in Slots :
          Answered(s, "me") =>
              LET i == reqs[s].caller IN
              /\ reqs'[s].status = 200
              /\ i \in DOMAIN players'
              /\ reqs'[s].player = players'[i]
              /\ IF i \in DOMAIN players
                 THEN players' = players
                 ELSE /\ DOMAIN players' = DOMAIN players \cup {i}
                      /\ \A j \in DOMAIN players : players'[j] = players[j]
                      /\ players'[i].id = i
                      /\ IsDefaultRecord(players'[i])]_vars

\* C15 witness: a GET /api/me whose first SELECT found no row was answered
\* with the row it created.
C15_Witness ==
    \E s \in Slots :
        /\ Replied(s, "me", 200)
        /\ reqs[s].row = NoRow
        /\ reqs[s].player # NoRow
        /\ IsDefaultRecord(reqs[s].player)
        /\ reqs[s].caller \in DOMAIN players

\* C17: a train request of an account without a players row is refused
\* with another error message than the one of insufficient points.
C17_MissingRecordHasOwnError ==
    [][\A s \in Slots :
          (Answered(s, "train") /\ reqs[s].caller \notin DOMAIN players) =>
              /\ reqs'[s].status # 200
              /\ reqs'[s].error # "Insufficient stat points"]_vars

\* C18: save, settings, update-name and check-achievements requests of an
\* account without a players row are answered with an error, not with
\* success, and change no table.
C18_MissingRecordIsAnError ==
    [][\A s \in Slots :
          \A op \in {"save", "settings", "update-name", "check-achievements"} :
              (Answered(s, op) /\ reqs[s].caller \notin DOMAIN players) =>
                  /\ reqs'[s].status # 200
                  /\ UNCHANGED <<users, players, achievements, unlocks>>]_vars

\* The colour values a settings body may carry.
WellFormedColors == {"#ef4444", "#3b82f6"}

\* C19: a settings request whose theme_color is not a colour value is
\* refused and leaves the stored theme_color as it was.
C19_MalformedColorRejected ==
    [][\A s \in Slots :
          (/\ Answered(s, "settings")
           /\ reqs[s].body.theme_color # ""
           /\ reqs[s].body.theme_color \notin WellFormedColors) =>
              /\ reqs'[s].status = 400
              /\ \A i \in DOMAIN players :
                    players'[i].theme_color = players[i].theme_color]_vars

\* The name between its first and its last character that is not a space.
Inner(name) ==
    LET ks == {k \in 1..Len(name) : name[k] # " "} IN
    IF ks = {} THEN <<>>
    ELSE SubSeq(name, CHOOSE k \in ks : \A j \in ks : k <= j,
                      CHOOSE k \in ks : \A j \in ks : k >= j)

\* C20: an update-name request whose name is missing or has fewer than two
\* characters once trimmed is answered 400 and leaves the players table as
\* it was; any other is answered 200, stores the trimmed name and changes no
\* other column.
C20_RenameValidatedAndTrimmed ==
    [][\A s \in Slots :
          Answered(s, "update-name") =>
              LET i == reqs[s].caller
                  name == reqs[s].body.name
              IN  IF Len(Inner(name)) < 2
                  THEN /\ reqs'[s].status = 400
                       /\ players' = players
                  ELSE /\ reqs'[s].status = 200
                       /\ DOMAIN players' = DOMAIN players
                       /\ \A j \in DOMAIN players :
                             players'[j] = IF j = i
                                           THEN [players[j] EXCEPT !.name = Inner(name)]
                                           ELSE players[j]]_vars

\* C20 witness: the name " a b" was stored as "a b".
C20_Witness ==
    \E s \in Slots :
        /\ Replied(s, "update-name", 200)
        /\ reqs[s].player # NoRow
        /\ reqs[s].player.name = <<"a", " ", "b">>
        /\ players[reqs[s].caller].name = <<"a", " ", "b">>
        /\ players[reqs[s].caller].theme_color = "#3b82f6"

\* C21: a save or check-achievements request leaves every column of every
\* players row other than last_save as it was.
C21_SaveAndCheckKeepRecord ==
    [][\A s \in Slots :
          \A op \in {"save", "check-achievements"} :
              Answered(s, op) =>
                  /\ DOMAIN players' = DOMAIN players
                  /\ \A j \in DOMAIN players :
                        [players'[j] EXCEPT !.last_save = players[j].last_save]
                            = players[j]]_vars

\* C21 witness: a save was answered with a row whose last_save is later
\* than its created_at and whose level is not the default.
C21_Witness ==
    \E s \in Slots :
        /\ Replied(s, "save", 200)
        /\ reqs[s].player # NoRow
        /\ reqs[s].player.last_save > reqs[s].player.created_at
        /\ reqs[s].player.level = 5
        /\ players[reqs[s].caller] = reqs[s].player

\* C22: the achievements table holds exactly the three seeded rows, one per
\* id (lvl_5: level >= 5, str_10: str >= 10, gold_1000: gold >= 1000), in
\* every reachable state; running initDb on it again gives the same table.
C22_CatalogIsTheSeed ==
    /\ Len(achievements) = 3
    /\ \A m, n \in 1..Len(achievements) :
          achievements[m].id = achievements[n].id => m = n
    /\ {achievements[n] : n \in 1..Len(achievements)} =
          { [id |-> "lvl_5",     requirement_type |-> "level", requirement_value |-> 5],
            [id |-> "str_10",    requirement_type |-> "str",   requirement_value |-> 10],
            [id |-> "gold_1000", requirement_type |-> "gold",  requirement_value |-> 1000] }
    /\ initDb(achievements) = achievements

\* C22 witness: the server started again on tables that hold a players row
\* (no request in any slot, which only a start leaves behind).
C22_Witness ==
    /\ \A s \in Slots : reqs[s].pc = "idle"
    /\ \E i \in DOMAIN players : players[i].stat_points < 5
    /\ Len(achievements) = 3

\* C23: a train request, answered 200 or 400, changes no column of the
\* caller's row other than str, dex, vit, stat_points, max_hp and last_save,
\* and no other row.
C23_TrainKeepsOtherColumns ==
    [][\A s \in Slots :
          Answered(s, "train") =>
              /\ DOMAIN players' = DOMAIN players
              /\ \A j \in DOMAIN players :
                    LET old == players[j] IN
                    [players'[j] EXCEPT !.str = old.str, !.dex = old.dex,
                                        !.vit = old.vit,
                                        !.stat_points = old.stat_points,
                                        !.max_hp = old.max_hp,
                                        !.last_save = old.last_save] = old]_vars

\* C23 witness: a train was answered 200 for a row whose name and language
\* had been changed before; both are as they were set.
C23_Witness ==
    \E s \in Slots :
        /\ Replied(s, "train", 200)
        /\ reqs[s].player # NoRow
        /\ reqs[s].player.str > 1
        /\ reqs[s].player.language = "TH"
        /\ reqs[s].player.name = <<"j", "o">>
        /\ reqs[s].player.hp = 100

\* C29: level, exp, hp, gold and gems of a row that createPlayer wrote stay
\* 1, 0, 100, 500 and 50 in every reachable state, and neither lvl_5 nor
\* gold_1000 is ever unlocked or reported for it.
C29_DefaultsNeverChange ==
    /\ \A i \in DOMAIN players :
          /\ players[i].level = 1 /\ players[i].exp = 0 /\ players[i].hp = 100
          /\ players[i].gold = 500 /\ players[i].gems = 50
          /\ UnlockedOf(unlocks, i) \cap {"lvl_5", "gold_1000"} = {}
    /\ \A s \in Slots :
          \A n \in 1..Len(reqs[s].newlyUnlocked) :
              reqs[s].newlyUnlocked[n].id \notin {"lvl_5", "gold_1000"}

\* C29 witness: a check-achievements request was answered 200 with an empty
\* list for a row that has been trained.
C29_Witness ==
    \E s \in Slots :
        /\ Replied(s, "check-achievements", 200)
        /\ reqs[s].newlyUnlocked = <<>>
        /\ reqs[s].caller \in DOMAIN players
        /\ players[reqs[s].caller].stat_points < 5
        /\ players[reqs[s].caller].level = 1

\* The position of a catalog row in the achievements table.
CatalogIndex(ach) == CHOOSE n \in 1..Len(achievements) : achievements[n].id = ach.id

\* The unlocked_at of player i's row for achievement id a.
UnlockedAt(tbl, i, a) ==
    (CHOOSE u \in tbl : u.player_id = i /\ u.achievement_id = a).unlocked_at

\* C24: within one check-achievements request the loop position only moves
\* forward through the catalog, every step adds at most one unlock row, for
\* a catalog entry after all those the request has recorded so far and not
\* earlier in time than them, and the newlyUnlocked list grows at its end:
\* rows and list are in catalog order.
C24_UnlocksInCatalogOrder ==
    [][\A s \in Slots :
          (/\ reqs[s].op = "check-achievements"
           /\ reqs'[s].op = "check-achievements"
           /\ reqs[s].pc # "done") =>
              LET i == reqs[s].caller
                  list == reqs[s].newlyUnlocked
                  after == reqs'[s].newlyUnlocked
              IN  /\ reqs'[s].k >= reqs[s].k
                  /\ \A n \in 1..Len(after) : CatalogIndex(after[n]) < reqs'[s].k
                  /\ \A m, n \in 1..Len(after) :
                        m < n => /\ CatalogIndex(after[m]) < CatalogIndex(after[n])
                                 /\ UnlockedAt(unlocks', i, after[m].id)
                                       <= UnlockedAt(unlocks', i, after[n].id)
                  /\ \/ after = list
                     \/ /\ Len(after) = Len(list) + 1
                        /\ SubSeq(after, 1, Len(list)) = list
                        /\ unlocks' \ unlocks \subseteq
                              {u \in unlocks' : /\ u.player_id = i
                                                /\ u.achievement_id = after[Len(after)].id}]_vars

\* C24 witness: a request answered with lvl_5 and str_10, in this order.
C24_Witness ==
    \E s \in Slots :
        /\ Replied(s, "check-achievements", 200)
        /\ Len(reqs[s].newlyUnlocked) = 2
        /\ reqs[s].newlyUnlocked[1].id = "lvl_5"
        /\ reqs[s].newlyUnlocked[2].id = "str_10"
        /\ {"lvl_5", "str_10"} \subseteq UnlockedOf(unlocks, reqs[s].caller)

\* C26: of two interleaved check-achievements requests of one player, no
\* achievement is in the newlyUnlocked list of both, and neither ends
\* without a response to its caller.
C26_InterleavedChecksBothAnswered ==
    \A s, o \in Slots :
        (/\ s # o
         /\ reqs[s].op = "check-achievements" /\ reqs[o].op = "check-achievements"
         /\ reqs[s].caller = reqs[o].caller
         /\ reqs[s].row # NoRow) =>
            /\ \A m \in 1..Len(reqs[s].newlyUnlocked), n \in 1..Len(reqs[o].newlyUnlocked) :
                  reqs[s].newlyUnlocked[m].id # reqs[o].newlyUnlocked[n].id
            /\ ~(reqs[s].pc = "thrown" /\ reqs[s].status = 0)

\* C25: with train requests of non-negative pointsSpent submitted
\* concurrently to the synchronous server, stat_points is never negative
\* and the points deducted in total (equal to the attribute points gained)
\* never exceed the points the row started with.
C25_LiteTrainNeverOverspends ==
    \A i \in DOMAIN players :
        LET start == createPlayer(i, UserName(i), "", 0)
            p == players[i]
            deducted == start.stat_points - p.stat_points
        IN  /\ p.stat_points >= 0
            /\ deducted >= 0
            /\ deducted <= start.stat_points
            /\ (p.str + p.dex + p.vit) - (start.str + start.dex + start.vit) = deducted

\* C25 witness: two train requests were pending together; one was answered
\* 200 and took the last points, the other is still to be handled and asks
\* for more than is left.
C25_Witness ==
    \E s, o \in Slots :
        /\ s # o
        /\ Replied(s, "train", 200)
        /\ reqs[o].pc = "recv" /\ reqs[o].op = "train"
        /\ reqs[o].caller = reqs[s].caller
        /\ players[reqs[s].caller].stat_points < reqs[o].body.pointsSpent
        /\ players[reqs[s].caller].stat_points = 0

\* C30: hp <= max_hp in every reachable state of every players row, train
\* requests with any integer vit in the body included.
C30_HpWithinMaxHp ==
    \A i \in DOMAIN players : players[i].hp <= players[i].max_hp

\* C27: a train, save, settings, update-name or check-achievements request
\* of account A changes no players row and no player_achievements row of
\* another account, and a request without a valid token is refused (401 or
\* 403) and changes no table.
C27_OnlyCallersData ==
    [][\A s \in Slots :
          (reqs[s].pc \in {"recv", "auth"} /\ reqs[s].op \in PlayerOps
              /\ reqs'[s].pc = "done") =>
              LET a == reqs[s].caller IN
              /\ users' = users
              /\ achievements' = achievements
              /\ DOMAIN players' = DOMAIN players
              /\ \A b \in DOMAIN players : b # a => players'[b] = players[b]
              /\ \A b \in Ids : b # a => UnlockRowsOf(unlocks', b) = UnlockRowsOf(unlocks, b)
              /\ reqs[s].pc = "auth" =>
                    /\ reqs'[s].status \in {401, 403}
                    /\ UNCHANGED <<users, players, achievements, unlocks>>]_vars

\* C27 witness: account 2 changed its language, was trained and unlocked
\* lvl_5; the row of account 1 is as createPlayer wrote it and account 1
\* has no unlock.
C27_Witness ==
    \E s \in Slots :
        /\ Replied(s, "check-achievements", 200)
        /\ reqs[s].caller = 2
        /\ players[2].language = "TH" /\ players[2].str > 1
        /\ UnlockedOf(unlocks, 2) = {"lvl_5"}
        /\ players[1] = [createPlayer(1, UserName(1), "", 0) EXCEPT !.level = 5]
        /\ UnlockedOf(unlocks, 1) = {}

\* C28: in the client's TrainingSection every pending value is >= 0, their
\* sum never exceeds the stat_points of the player record last fetched, and
\* every train request the client sends has a sum above 0 and carries
\* pointsSpent = str + dex + vit.
C28_PendingWithinPoints ==
    Rendered =>
        /\ \A stat \in StatNames : client.pendingStats[stat] >= 0
        /\ totalSpent <= client.player.stat_points
        /\ (reqs[1].pc = "recv" /\ reqs[1].op = "train") =>
              /\ reqs[1].body.pointsSpent =
                    reqs[1].body.str + reqs[1].body.dex + reqs[1].body.vit
              /\ reqs[1].body.pointsSpent > 0

====
